---- MODULE Spec2Model ----
(***************************************************************************)
(* Model of breach_finder.py (OSINT Breach & Credential Exposure Tracker). *)
(*                                                                         *)
(* The program is the linear pipeline of main():                           *)
(*   load_offline_dataset -> filter_by_domain / filter_by_emails ->        *)
(*   drop_duplicates -> summarize (severity_for_row per row) ->            *)
(*   hibp_lookup_many -> write_outputs (CSV, JSON, Markdown).              *)
(*                                                                         *)
(* Representation choices:                                                 *)
(*  - a Python str is a sequence of one-character strings, so that         *)
(*    lower(), strip(), endswith(), "k in s" and string ordering are       *)
(*    computed the way Python computes them;                               *)
(*  - a timestamp is an integer number of hours; Timedelta.days is the     *)
(*    floor of the difference in whole days; NaT is the value NaT;         *)
(*  - years = days / 365.25 is compared exactly in quarter days:           *)
(*    years < k  <=>  4 * days < k * 1461;                                 *)
(*  - a float mean sum/n is kept as the pair (sum, n); round(x, 2) is the  *)
(*    integer number of hundredths.                                        *)
(* Not modelled (no property below reads them): the password_hash column,  *)
(* the compromised_data_top field of a breach aggregate and the text of   *)
(* the rendered files.                                                     *)
(***************************************************************************)
EXTENDS Integers, Sequences, FiniteSets, TLC

\* ------------------------------------------------------------------------
\* Bounds of the model
\* ------------------------------------------------------------------------
\* Largest number of rows of the offline CSV.
MaxRows == 3
\* Largest score, in hundredths, handed to risk_band on its own.
MaxScoreCents == 600

\* ------------------------------------------------------------------------
\* Python str as a sequence of characters
\* ------------------------------------------------------------------------
\* Printable ASCII in code-point order: code points 32..95 and 97..126
\* (the grave accent, 96, cannot be written in a string of this language and
\* occurs in no input).
AsciiLow ==
   << " ", "!", "\"", "#", "$", "%", "&", "'", "(", ")", "*", "+", ",", "-", ".", "/",
      "0", "1", "2", "3", "4", "5", "6", "7", "8", "9", ":", ";", "<", "=", ">", "?",
      "@", "A", "B", "C", "D", "E", "F", "G", "H", "I", "J", "K", "L", "M", "N", "O",
      "P", "Q", "R", "S", "T", "U", "V", "W", "X", "Y", "Z", "[", "\\", "]", "^", "_" >>

AsciiHigh ==
   << "a", "b", "c", "d", "e", "f", "g", "h", "i", "j", "k", "l", "m", "n", "o",
      "p", "q", "r", "s", "t", "u", "v", "w", "x", "y", "z", "{", "|", "}", "~" >>

AsciiChars ==
   {AsciiLow[i] : i \in 1..Len(AsciiLow)} \cup {AsciiHigh[i] : i \in 1..Len(AsciiHigh)}

\* ord(c)
OrdTable ==
   [c \in AsciiChars |->
      IF \E i \in 1..Len(AsciiLow) : AsciiLow[i] = c
      THEN 31 + (CHOOSE i \in 1..Len(AsciiLow) : AsciiLow[i] = c)
      ELSE 96 + (CHOOSE i \in 1..Len(AsciiHigh) : AsciiHigh[i] = c)]

Ord(c) == OrdTable[c]

\* chr(n)
Chr(n) == IF n <= 95 THEN AsciiLow[n - 31] ELSE AsciiHigh[n - 96]

\* str.lower() on one character: "A".."Z" (65..90) map to "a".."z".
LowerChar(c) == IF Ord(c) >= 65 /\ Ord(c) <= 90 THEN Chr(Ord(c) + 32) ELSE c

\* str.lower()
RECURSIVE Lower(_)
Lower(s) == IF s = <<>> THEN <<>> ELSE <<LowerChar(Head(s))>> \o Lower(Tail(s))

\* k in s  (substring containment)
Contains(s, k) ==
   \E i \in 1..(Len(s) - Len(k) + 1) : SubSeq(s, i, i + Len(k) - 1) = k

\* s.endswith(k)
EndsWith(s, k) ==
   /\ Len(k) <= Len(s)
   /\ SubSeq(s, Len(s) - Len(k) + 1, Len(s)) = k

\* str.strip(): drop leading and trailing whitespace.
RECURSIVE LStrip(_)
LStrip(s) == IF s # <<>> /\ Head(s) = " " THEN LStrip(Tail(s)) ELSE s

RECURSIVE RStrip(_)
RStrip(s) ==
   IF s # <<>> /\ s[Len(s)] = " " THEN RStrip(SubSeq(s, 1, Len(s) - 1)) ELSE s

Strip(s) == RStrip(LStrip(s))

\* a < b on str: lexicographic by code point.
RECURSIVE StrLess(_, _)
StrLess(a, b) ==
   IF b = <<>> THEN FALSE
   ELSE IF a = <<>> THEN TRUE
   ELSE IF Ord(Head(a)) < Ord(Head(b)) THEN TRUE
   ELSE IF Ord(Head(a)) > Ord(Head(b)) THEN FALSE
   ELSE StrLess(Tail(a), Tail(b))

\* sorted(set): the elements of a finite set of str in ascending order.
RECURSIVE SortedStrs(_)
SortedStrs(S) ==
   IF S = {} THEN <<>>
   ELSE LET m == CHOOSE x \in S : \A y \in S : y = x \/ StrLess(x, y)
        IN  <<m>> \o SortedStrs(S \ {m})

\* ------------------------------------------------------------------------
\* Time
\* ------------------------------------------------------------------------
\* An optional value is a sequence of length at most one: NaT (no date) and
\* None are the empty one.
NaT == <<>>
None == <<>>

\* A known timestamp, and its value in hours.
At(hours) == <<hours>>
HoursOf(ts) == ts[1]

\* Hours in a day: Timedelta.days counts whole 24-hour days.
HoursPerDay == 24
\* 365.25 days, in quarter days.
QuarterDaysPerYear == 1461
\* Hours in a year of 365.25 days.
HoursPerYear == (QuarterDaysPerYear * HoursPerDay) \div 4

\* The process clock, naive local time, when the run starts (hours since the
\* epoch).
StartClock == 56 * HoursPerYear

\* The hours local time is ahead of UTC: the process runs in UTC or in
\* Asia/Tokyo.
UtcOffsets == {0, 9}

\* The hours the clock may advance during one summarize call: the call lasts
\* far less than an hour, so every read falls in the hour the call started
\* in or in the next one.
ClockTicks == {0, 1}

\* ------------------------------------------------------------------------
\* Inputs: the rows an offline CSV may hold
\* ------------------------------------------------------------------------
S_USER_UC == <<"U","S","E","R","@","E","X","A","M","P","L","E",".","C","O","M">>
S_user_lc == <<"u","s","e","r","@","e","x","a","m","p","l","e",".","c","o","m">>
S_bob == <<"b","o","b","@","o","t","h","e","r",".","o","r","g">>
S_ann == <<"a","n","n","@","e","x","a","m","p","l","e",".","c","o","m">>
S_Acme == <<"A","c","m","e">>
S_Beta == <<"B","e","t","a">>
S_Zeta == <<"Z","e","t","a">>
S_password_email == <<"p","a","s","s","w","o","r","d",","," ","e","m","a","i","l">>
S_phone == <<"p","h","o","n","e">>
S_Email_DOB == <<"E","m","a","i","l"," ","|"," ","D","O","B">>

\* Breach dates: half a year and five years before the start of the run,
\* and one hour short of 366 days before it.
D_half == StartClock - (HoursPerYear \div 2)
D_five == StartClock - 5 * HoursPerYear
D_roll == StartClock - (366 * HoursPerDay - 1)

Row(e, s, d, c) == [email |-> e, source |-> s, breach_date |-> d, compromised_data |-> c]

R1 == Row(S_USER_UC, S_Acme, At(D_half), S_password_email)
R2 == Row(S_user_lc, S_Acme, At(D_five), S_phone)
R3 == Row(S_user_lc, S_Zeta, At(D_roll), S_phone)
R4 == Row(S_bob, S_Zeta, At(D_roll), S_phone)
R5 == Row(S_ann, S_Beta, NaT, S_Email_DOB)

Pool == {R1, R2, R3, R4, R5}

\* Every CSV content of at most MaxRows rows.
Datasets == UNION {[1..n -> Pool] : n \in 0..MaxRows}

\* The values of --max-hibp: no lookup, and at most two lookups.
HibpArgs == {0, 2}

\* --domain value and the lines of the --emails file.
DomainArg == <<"E","x","a","m","p","l","e",".","c","o","m">>
EmailsFileLines ==
   << <<" ","U","s","e","r","@","E","x","a","m","p","l","e",".","c","o","m"," ">>,
      <<"b","o","b","@","o","t","h","e","r",".","o","r","g">>,
      <<"n","o","t","-","a","n","-","a","d","d","r","e","s","s">>,
      <<>>,
      <<"A","N","N","@","e","x","a","m","p","l","e",".","c","o","m">>,
      <<"b","o","b","@","o","t","h","e","r",".","o","r","g">> >>

\* ------------------------------------------------------------------------
\* State
\* ------------------------------------------------------------------------
VARIABLES
   pc,        \* position of main(): start, loaded, selected, summarized,
              \* enriched, done, aborted
   dataset,   \* df: the rows of the offline CSV
   selected,  \* the match set handed to summarize and write_outputs
   selected_emails, \* the emails collected for the HIBP lookups
   row_now,   \* the value pd.Timestamp.now() returned for each row of the match set
   severity,  \* df["severity"]: the score of each row of the match set
   summary,   \* the dict returned by summarize
   files,     \* the names of the report artifacts that exist on disk
   written,   \* those of them whose content was written completely
   clock,     \* the process clock (local time)
   score,     \* argument of a stand-alone risk_band call (hundredths)
   band       \* its result

vars ==
   <<pc, dataset, selected, selected_emails, row_now, severity, summary, files,
     written, clock, score, band>>

\* ------------------------------------------------------------------------
\* Small helpers
\* ------------------------------------------------------------------------
Min2(a, b) == IF a <= b THEN a ELSE b

RECURSIVE SumSeq(_)
SumSeq(s) == IF s = <<>> THEN 0 ELSE Head(s) + SumSeq(Tail(s))

Range(s) == {s[i] : i \in 1..Len(s)}

\* The clock values a summarize call started at clock may read.
ClockValues(start) == {start + d : d \in ClockTicks}

\* The non-decreasing sequences of n clock readings of such a call.
Readings(n, start) ==
   {f \in [1..n -> ClockValues(start)] : \A i \in 1..(n - 1) : f[i] <= f[i + 1]}

\* ------------------------------------------------------------------------
\* Selector
\* ------------------------------------------------------------------------
\* read_emails_file: strip each line, keep the non-empty ones holding "@",
\* return them unique and sorted.
read_emails_file(lines) ==
   SortedStrs({Strip(lines[i]) : i \in {j \in 1..Len(lines) :
                  Strip(lines[j]) # <<>> /\ Contains(Strip(lines[j]), <<"@">>)}})

\* filter_by_domain: rows whose lower-cased email ends with "@" + domain.lower().
EmailEndsWith(df, suffix) ==
   SelectSeq(df, LAMBDA r : EndsWith(Lower(r.email), suffix))

filter_by_domain(df, domain) == EmailEndsWith(df, <<"@">> \o Lower(domain))

\* filter_by_emails: rows whose lower-cased email is one of the lower-cased emails.
EmailIsIn(df, emails_lower) ==
   SelectSeq(df, LAMBDA r : Lower(r.email) \in emails_lower)

filter_by_emails(df, emails) ==
   EmailIsIn(df, {Lower(emails[i]) : i \in 1..Len(emails)})

\* DataFrame.drop_duplicates: keep the first occurrence of every row.
RECURSIVE drop_duplicates(_)
drop_duplicates(df) ==
   IF df = <<>> THEN <<>>
   ELSE LET init == drop_duplicates(SubSeq(df, 1, Len(df) - 1))
            last == df[Len(df)]
        IN  IF last \in Range(init) THEN init ELSE Append(init, last)

\* ------------------------------------------------------------------------
\* Severity scorer
\* ------------------------------------------------------------------------
\* (now - breach_date).days: whole days, rounded towards minus infinity.
TimedeltaDays(now, breach_date) == (now - HoursOf(breach_date)) \div HoursPerDay

\* Lines 104-109: the recency factor. years = days / 365.25, so
\* years < 1 <=> 4 * days < 1461 and years < 3 <=> 4 * days < 3 * 1461.
RecencyFactor(breach_date, now) ==
   IF breach_date = NaT THEN 0
   ELSE LET days == TimedeltaDays(now, breach_date)
        IN  IF 4 * days < QuarterDaysPerYear THEN 2
            ELSE IF 4 * days < 3 * QuarterDaysPerYear THEN 1
            ELSE 0

KwPassword == {<<"p","a","s","s","w","o","r","d">>, <<"p","w","d">>, <<"h","a","s","h">>}
KwEmail == {<<"e","m","a","i","l">>, <<"u","s","e","r","n","a","m","e">>}
KwPersonal == {<<"p","h","o","n","e">>, <<"a","d","d","r","e","s","s">>, <<"d","o","b">>}

\* any(k in dt for k in keywords)
AnyIn(dt, keywords) == \E k \in keywords : Contains(dt, k)

\* Lines 113-118 with an elif chain: only the first matching factor counts.
FactorsFirstMatch(dt) ==
   IF AnyIn(dt, KwPassword) THEN 3
   ELSE IF AnyIn(dt, KwEmail) THEN 1
   ELSE IF AnyIn(dt, KwPersonal) THEN 1
   ELSE 0

\* Lines 113-118: three independent tests of the lower-cased text dt.
Factors(dt) ==
     (IF AnyIn(dt, KwPassword) THEN 3 ELSE 0)
   + (IF AnyIn(dt, KwEmail) THEN 1 ELSE 0)
   + (IF AnyIn(dt, KwPersonal) THEN 1 ELSE 0)

\* Lines 112-118: the data type factors of str(compromised_data).lower().
DataFactor(compromised_data) == Factors(Lower(compromised_data))

\* The variant that forgets the cap.
severity_for_row_nocap(row, now) ==
   RecencyFactor(row.breach_date, now) + DataFactor(row.compromised_data)

\* severity_for_row, with the value pd.Timestamp.now() returns made explicit.
severity_for_row(row, now) ==
   Min2(RecencyFactor(row.breach_date, now) + DataFactor(row.compromised_data), 5)

\* The variant with strict thresholds.
risk_band_strict(num, den) ==
   IF num > 4 * den THEN "High"
   ELSE IF 2 * num > 5 * den THEN "Medium"
   ELSE "Low"

\* risk_band(score) for the score num / den (den > 0).
risk_band(num, den) ==
   IF num >= 4 * den THEN "High"
   ELSE IF 2 * num >= 5 * den THEN "Medium"
   ELSE "Low"

\* ------------------------------------------------------------------------
\* Aggregator
\* ------------------------------------------------------------------------
\* round(num / den, 2) in hundredths: to nearest, an exact half to the even
\* neighbour (exact halves arise only for a mean k/8, which a float holds
\* exactly; valid for den < 40).
Round2(num, den) ==
   LET q == (100 * num) \div den
       r == (100 * num) % den
   IN  IF 2 * r < den THEN q
       ELSE IF 2 * r > den THEN q + 1
       ELSE IF q % 2 = 0 THEN q ELSE q + 1

\* df.groupby("source"): the group keys in ascending order.
GroupKeys(df) == SortedStrs({df[i].source : i \in 1..Len(df)})

\* The row positions of one group, in row order.
GroupIdx(df, source) == {i \in 1..Len(df) : df[i].source = source}

\* Series.nunique() of the email column of a set of rows: distinct values,
\* compared as they are.
NUniqueEmails(df, idx) == Cardinality({df[i].email : i \in idx})

\* g["breach_date"].max() then .date(): the latest known date as a day
\* number, None when every date of the group is NaT.
LatestBreachDate(df, idx) ==
   LET known == {HoursOf(df[i].breach_date) : i \in {j \in idx : df[j].breach_date # NaT}}
   IN  IF known = {} THEN None
       ELSE <<(CHOOSE d \in known : \A e \in known : e <= d) \div HoursPerDay>>

\* Sum of the severities of a set of rows.
RECURSIVE SumOver(_, _)
SumOver(sev, idx) ==
   IF idx = {} THEN 0
   ELSE LET i == CHOOSE j \in idx : TRUE
        IN  sev[i] + SumOver(sev, idx \ {i})

\* Lines 158-169: one per-breach aggregate.
BreachAggregate(df, sev, source) ==
   LET idx == GroupIdx(df, source)
       total == SumOver(sev, idx)
       n == Cardinality(idx)
   IN  [source |-> source,
        records |-> n,
        unique_emails |-> NUniqueEmails(df, idx),
        latest_breach_date |-> LatestBreachDate(df, idx),
        avg_severity |-> Round2(total, n),
        risk_band |-> risk_band(total, n)]

\* Lines 157-169: per_breach, in groupby order.
AggregateEach(df, sev, keys) ==
   [k \in 1..Len(keys) |-> BreachAggregate(df, sev, keys[k])]

PerBreach(df, sev) == AggregateEach(df, sev, GroupKeys(df))

\* The variant that breaks ties by ascending record count.
BreachBeforeAscRecords(a, b) ==
   \/ a.avg_severity > b.avg_severity
   \/ a.avg_severity = b.avg_severity /\ a.records < b.records

\* Line 180: the sort key (-avg_severity, -records); a sorts strictly before b.
BreachBefore(a, b) ==
   \/ a.avg_severity > b.avg_severity
   \/ a.avg_severity = b.avg_severity /\ a.records > b.records

\* Insert x into a sorted list after every entry it does not sort before.
RECURSIVE InsertBreach(_, _)
InsertBreach(sorted, x) ==
   IF sorted = <<>> THEN <<x>>
   ELSE IF BreachBefore(x, Head(sorted)) THEN <<x>> \o sorted
   ELSE <<Head(sorted)>> \o InsertBreach(Tail(sorted), x)

\* sorted(per_breach, key=...): a stable sort.
RECURSIVE SortBreaches(_)
SortBreaches(per_breach) ==
   IF per_breach = <<>> THEN <<>>
   ELSE InsertBreach(SortBreaches(SubSeq(per_breach, 1, Len(per_breach) - 1)),
                     per_breach[Len(per_breach)])

\* The sum of the fractions fr[1] + ... + fr[Len(fr)], each a pair <<num, den>>.
RECURSIVE FracSum(_)
FracSum(fr) ==
   IF fr = <<>> THEN <<0, 1>>
   ELSE LET rest == FracSum(Tail(fr))
        IN  <<Head(fr)[1] * rest[2] + rest[1] * Head(fr)[2], Head(fr)[2] * rest[2]>>

\* The variant that averages the group means.
GroupMeans(df, sev, keys) ==
   [k \in 1..Len(keys) |->
      <<SumOver(sev, GroupIdx(df, keys[k])), Cardinality(GroupIdx(df, keys[k]))>>]

MeanOfFractions(total, n) == <<total[1], total[2] * n>>

overall_score_of_group_means(df, sev) ==
   MeanOfFractions(FracSum(GroupMeans(df, sev, GroupKeys(df))),
                   Cardinality({df[i].source : i \in 1..Len(df)}))

\* Line 171: df["severity"].mean(), as the pair <<sum, count>>.
overall_score(df, sev) == <<SumSeq(sev), Len(sev)>>

\* Line 153: df.apply(severity_for_row, axis=1); nows[i] is the clock value
\* the call for row i reads.
SeverityColumn(df, nows) == [i \in 1..Len(df) |-> severity_for_row(df[i], nows[i])]

\* Lines 171-181: the dict built for a non-empty match set with severity
\* column sev.
NonEmptySummary(df, sev, generated_at) ==
   LET mean == overall_score(df, sev)
   IN  [generated_at |-> generated_at,
        total_exposed_accounts |-> Len(df),
        unique_emails |-> NUniqueEmails(df, 1..Len(df)),
        distinct_breaches |-> Cardinality({df[i].source : i \in 1..Len(df)}),
        risk_score |-> Round2(mean[1], mean[2]),
        risk_band |-> risk_band(mean[1], mean[2]),
        breaches |-> SortBreaches(PerBreach(df, sev))]

\* summarize: the returned dict. nows are the local clock values the rows
\* read, generated_at the UTC clock value utcnow() reads.
summarize(df, nows, generated_at) ==
   IF df = <<>>
   THEN [total_exposed_accounts |-> 0,
         unique_emails |-> 0,
         breaches |-> <<>>,
         risk_score |-> 0,
         risk_band |-> "Low"]
   ELSE NonEmptySummary(df, SeverityColumn(df, nows), generated_at)

\* ------------------------------------------------------------------------
\* Report renderer
\* ------------------------------------------------------------------------
Artifacts == {"exposed_accounts.csv", "results.json", "sample_run_results.md"}

ArtifactOrder == <<"exposed_accounts.csv", "results.json", "sample_run_results.md">>

\* The position of a write step in write_outputs: csv 1, json 2, md 3, and 4
\* for "none" (no step raises).
StepIndex(failing_step) ==
   CASE failing_step = "csv" -> 1
     [] failing_step = "json" -> 2
     [] failing_step = "md" -> 3
     [] OTHER -> 4

\* write_outputs writes the three files in this order; failing_step is the
\* step that raises (none: no step raises). The files written before it stay
\* on disk, complete. The failing step raises either before its file exists
\* (os.makedirs or open raises) or after open created it (to_csv, json.dump
\* or render_markdown raises): then the file stays too, truncated or empty.
\* The result is the names on disk and, among them, the complete files.
write_outputs(failing_step, file_created) ==
   LET k == StepIndex(failing_step)
       complete == {ArtifactOrder[i] : i \in 1..(k - 1)}
   IN  [on_disk |-> IF k <= 3 /\ file_created
                    THEN complete \cup {ArtifactOrder[k]} ELSE complete,
        complete |-> complete]

\* ------------------------------------------------------------------------
\* Enrichment stub
\* ------------------------------------------------------------------------
\* hibp_lookup_many: a placeholder result for each of the first max_count
\* emails; nothing when max_count <= 0.
hibp_lookup_many(emails, max_count) ==
   IF max_count <= 0 THEN <<>>
   ELSE [e \in {emails[i] : i \in 1..Min2(max_count, Len(emails))} |->
           [pwned |-> FALSE, breaches |-> <<>>]]

\* Line 260: time.sleep(0.5) before each lookup. The lookups of one run
\* sleep for far less than an hour, so the clock stays in its hour or
\* reaches the next one.
SleepTicks(max_count) == IF max_count <= 0 THEN {0} ELSE {0, 1}

\* ------------------------------------------------------------------------
\* The run: main()
\* ------------------------------------------------------------------------
Init ==
   /\ pc = "start"
   /\ dataset = <<>>
   /\ selected = <<>>
   /\ selected_emails = {}
   /\ row_now = <<>>
   /\ severity = <<>>
   /\ summary = [unset |-> TRUE]
   /\ files = {}
   /\ written = {}
   /\ clock = StartClock
   /\ score = 0
   /\ band = "unset"

\* Line 272: load_offline_dataset. A missing path raises FileNotFoundError
\* (line 47) and a CSV without the expected columns ValueError (line 54):
\* the run ends before anything is written.
LoadOfflineDataset ==
   /\ pc = "start"
   /\ \/ \E ds \in Datasets :
            /\ dataset' = ds
            /\ pc' = "loaded"
      \/ /\ dataset' = dataset
         /\ pc' = "aborted"
   /\ UNCHANGED <<selected, selected_emails, row_now, severity, summary, files,
                  written, clock, score, band>>

\* Lines 281 and 286: the emails collected for the lookups: the distinct
\* emails of the domain matches, and the emails read from the --emails file.
SelectedEmails(by_domain, ems) ==
   {by_domain[i].email : i \in 1..Len(by_domain)} \cup {ems[i] : i \in 1..Len(ems)}

\* Lines 275-290: the selection. --domain and --emails are mutually
\* exclusive (line 30); the two filter results are concatenated and
\* duplicate rows dropped. read_emails_file raises when the --emails file
\* cannot be opened or decoded (line 72): main does not catch it and the run
\* ends with nothing selected and nothing written.
Select ==
   /\ pc = "loaded"
   /\ \E use_domain \in BOOLEAN, use_emails \in BOOLEAN :
      \E emails_readable \in (IF use_emails THEN BOOLEAN ELSE {TRUE}) :
         /\ ~(use_domain /\ use_emails)
         /\ IF use_emails /\ ~emails_readable
            THEN /\ pc' = "aborted"
                 /\ UNCHANGED <<selected, selected_emails>>
            ELSE LET by_domain == IF use_domain
                                  THEN filter_by_domain(dataset, DomainArg) ELSE <<>>
                     ems == IF use_emails THEN read_emails_file(EmailsFileLines) ELSE <<>>
                     by_emails == IF use_emails THEN filter_by_emails(dataset, ems) ELSE <<>>
                 IN  /\ selected' = drop_duplicates(by_domain \o by_emails)
                     /\ selected_emails' = SelectedEmails(by_domain, ems)
                     /\ pc' = "selected"
   /\ UNCHANGED <<dataset, row_now, severity, summary, files, written, clock, score, band>>

\* Line 293: summarize(selected). Each severity_for_row call reads the local
\* clock (pd.Timestamp.now(), line 105), which may advance between two
\* reads; after the groupby loop datetime.utcnow() (line 173) reads the
\* clock once more, in UTC. An empty match set returns before any read.
Summarize ==
   /\ pc = "selected"
   /\ \E nows \in Readings(Len(selected), clock) :
         /\ row_now' = nows
         /\ severity' = SeverityColumn(selected, nows)
         /\ IF selected = <<>>
            THEN /\ summary' = summarize(selected, nows, clock)
                 /\ clock' = clock
            ELSE \E utc_offset \in UtcOffsets :
                    \E last_read \in {v \in ClockValues(clock) : v >= nows[Len(selected)]} :
                       /\ summary' = summarize(selected, nows, last_read - utc_offset)
                       /\ clock' = last_read
   /\ pc' = "summarized"
   /\ UNCHANGED <<dataset, selected, selected_emails, files, written, score, band>>

\* Lines 295-298: the optional enrichment. With --max-hibp > 0 and at least
\* one collected email the lookups of sorted(selected_emails) are stored in
\* summary["hibp_enrichment"]; the sleeps before the lookups let the clock
\* advance.
Enrich ==
   /\ pc = "summarized"
   /\ \E max_hibp \in HibpArgs :
         IF max_hibp > 0 /\ selected_emails # {}
         THEN /\ summary' = summary @@
                    ("hibp_enrichment" :>
                        hibp_lookup_many(SortedStrs(selected_emails), max_hibp))
              /\ \E ticks \in SleepTicks(max_hibp) : clock' = clock + ticks
         ELSE UNCHANGED <<summary, clock>>
   /\ pc' = "enriched"
   /\ UNCHANGED <<dataset, selected, selected_emails, row_now, severity, files,
                  written, score, band>>

\* Line 301: write_outputs. An exception raised by one of the three write
\* steps ends the run and leaves what is on disk by then.
WriteOutputs ==
   /\ pc = "enriched"
   /\ \E failing_step \in {"none", "csv", "json", "md"}, file_created \in BOOLEAN :
         /\ files' = write_outputs(failing_step, file_created).on_disk
         /\ written' = write_outputs(failing_step, file_created).complete
         /\ pc' = IF failing_step = "none" THEN "done" ELSE "aborted"
   /\ UNCHANGED <<dataset, selected, selected_emails, row_now, severity, summary,
                  clock, score, band>>

Next == LoadOfflineDataset \/ Select \/ Summarize \/ Enrich \/ WriteOutputs

Spec == Init /\ [][Next]_vars

\* A stand-alone call of risk_band on a score given in hundredths.
InitBand ==
   /\ pc = "band"
   /\ dataset = <<>>
   /\ selected = <<>>
   /\ selected_emails = {}
   /\ row_now = <<>>
   /\ severity = <<>>
   /\ summary = [unset |-> TRUE]
   /\ files = {}
   /\ written = {}
   /\ clock = StartClock
   /\ score \in 0..MaxScoreCents
   /\ band = "unset"

ApplyRiskBand ==
   /\ pc = "band"
   /\ band = "unset"
   /\ band' = risk_band(score, 100)
   /\ UNCHANGED <<pc, dataset, selected, selected_emails, row_now, severity, summary,
                  files, written, clock, score>>

NextBand == ApplyRiskBand

SpecBand == InitBand /\ [][NextBand]_vars

\* ------------------------------------------------------------------------
\* Properties
\* ------------------------------------------------------------------------
\* summarize has returned.
HasSummary == summary # [unset |-> TRUE]

\* The data-sensitivity sum of a lower-cased text: +3 for any of
\* password/pwd/hash, +1 for any of email/username, +1 for any of
\* phone/address/dob, each counted on its own.
SensitivitySum(dt) ==
     (IF \E k \in KwPassword : Contains(dt, k) THEN 3 ELSE 0)
   + (IF \E k \in KwEmail : Contains(dt, k) THEN 1 ELSE 0)
   + (IF \E k \in KwPersonal : Contains(dt, k) THEN 1 ELSE 0)

CappedSum(r, s) == IF r + s > 5 THEN 5 ELSE r + s

\* C1: every scored row has severity min(r + s, 5), r its recency
\* contribution (0, 1 or 2) and s the additive data-sensitivity sum of its
\* lower-cased compromised_data; so the severity is an integer in 0..5.
C1_SeverityIsCappedSum ==
   /\ HasSummary => Len(severity) = Len(selected)
   /\ \A i \in 1..Len(severity) :
         /\ RecencyFactor(selected[i].breach_date, row_now[i]) \in {0, 1, 2}
         /\ severity[i] = CappedSum(RecencyFactor(selected[i].breach_date, row_now[i]),
                                    SensitivitySum(Lower(selected[i].compromised_data)))
         /\ severity[i] \in 0..5

\* C1 witness: a scored row whose factors add up to more than 5 and whose
\* severity is the cap, together with a row of unknown date whose two
\* data factors add up to 2.
C1_Witness ==
   /\ \E i \in 1..Len(severity) :
         /\ RecencyFactor(selected[i].breach_date, row_now[i])
               + SensitivitySum(Lower(selected[i].compromised_data)) > 5
         /\ severity[i] = 5
   /\ \E i \in 1..Len(severity) :
         /\ selected[i].breach_date = NaT
         /\ severity[i] = 2

\* The recency tier of the exact age now - breach_date, a year being
\* 365.25 days: 2 below one year, 1 from one year to below three, else 0;
\* 0 for an unknown date.
ExactAgeTier(breach_date, now) ==
   IF breach_date = NaT THEN 0
   ELSE IF now - HoursOf(breach_date) < HoursPerYear THEN 2
   ELSE IF now - HoursOf(breach_date) < 3 * HoursPerYear THEN 1
   ELSE 0

\* C2: the recency contribution of every scored row is the tier of its exact
\* age (now - breach_date) / 365.25 days, also when the age is less than a
\* day away from a tier boundary, and 0 for an unknown date.
C2_RecencyByExactAge ==
   \A i \in 1..Len(row_now) :
      RecencyFactor(selected[i].breach_date, row_now[i])
         = ExactAgeTier(selected[i].breach_date, row_now[i])

\* C3: risk_band is total and its bands exclude each other: High exactly
\* when score >= 4, Medium exactly when 2.5 <= score < 4, Low exactly when
\* score < 2.5 (scores in hundredths: 4.0 High, 3.99 Medium, 2.5 Medium,
\* 2.49 Low, 0 Low).
C3_RiskBandPartition ==
   band # "unset" =>
      /\ band \in {"High", "Medium", "Low"}
      /\ band = "High" <=> score >= 400
      /\ band = "Medium" <=> (score >= 250 /\ score < 400)
      /\ band = "Low" <=> score < 250
      /\ score = 400 => band = "High"
      /\ score = 399 => band = "Medium"
      /\ score = 250 => band = "Medium"
      /\ score = 249 => band = "Low"
      /\ score = 0 => band = "Low"

\* C3 witness: risk_band was applied to 3.99 and answered Medium.
C3_Witness == score = 399 /\ band = "Medium"

\* The match set of the worked example: exactly the two records of one
\* source, "password, email" half a year old and "phone" five years old.
ExampleMatchSet ==
   /\ HasSummary
   /\ Len(selected) = 2
   /\ Range(selected) = {R1, R2}

ExampleSummary(expected_band) ==
   /\ Range(severity) = {5, 1}
   /\ Len(summary.breaches) = 1
   /\ summary.breaches[1].avg_severity = 300
   /\ summary.breaches[1].risk_band = expected_band
   /\ summary.risk_score = 300

\* C4 as stated: the example yields one breach aggregate with mean severity
\* 3.0 and risk band High, and an overall mean of 3.0.
C4_ExampleBandHigh == ExampleMatchSet => ExampleSummary("High")

\* C4 amended: the example yields one breach aggregate with mean severity
\* 3.0 and risk band Medium (3.0 is below 4), and an overall mean of 3.0.
C4_ExampleBandMedium == ExampleMatchSet => ExampleSummary("Medium")

\* C4 witness: the example match set has been summarized.
C4_Witness == ExampleMatchSet /\ summary.breaches[1].risk_band = "Medium"

\* C5: unique_emails of every breach aggregate is the number of distinct
\* emails of its group compared case-insensitively.
C5_UniqueEmailsCaseInsensitive ==
   HasSummary =>
      \A k \in 1..Len(summary.breaches) :
         summary.breaches[k].unique_emails
            = Cardinality({Lower(selected[i].email) :
                             i \in GroupIdx(selected, summary.breaches[k].source)})

\* C6: the run never leaves a partial set of report artifacts: all three
\* files are written completely or none exists on disk.
C6_AllOrNothing == files = {} \/ written = Artifacts

SummaryKeys ==
   {"generated_at", "total_exposed_accounts", "unique_emails", "distinct_breaches",
    "risk_score", "risk_band", "breaches"}

\* C7: every Summary, the one of the empty match set included, carries all
\* the documented keys; for the empty match set every count is 0, breaches
\* is empty, risk_score is 0 and risk_band is Low = risk_band(0).
C7_SummaryHasAllKeys ==
   HasSummary =>
      /\ SummaryKeys \subseteq DOMAIN summary
      /\ selected = <<>> =>
            /\ summary.total_exposed_accounts = 0
            /\ summary.unique_emails = 0
            /\ summary.distinct_breaches = 0
            /\ summary.breaches = <<>>
            /\ summary.risk_score = 0
            /\ summary.risk_band = "Low"
            /\ summary.risk_band = risk_band(0, 1)

\* C8: for a non-empty match set the overall risk_score is the mean of the
\* severities of all its records, rounded to 2 decimals, and the overall
\* risk_band is the band of that mean.
C8_OverallMeanPerRecord ==
   (HasSummary /\ selected # <<>>) =>
      /\ summary.risk_score = Round2(SumSeq(severity), Len(selected))
      /\ summary.risk_band =
            (IF SumSeq(severity) >= 4 * Len(selected) THEN "High"
             ELSE IF 2 * SumSeq(severity) >= 5 * Len(selected) THEN "Medium"
             ELSE "Low")

GroupMeansScore(fr) == Round2(fr[1], fr[2])

\* C8 witness: a summary of groups of unequal size whose mean of group means
\* differs from its risk_score.
C8_Witness ==
   /\ HasSummary
   /\ selected # <<>>
   /\ \E j \in 1..Len(summary.breaches), k \in 1..Len(summary.breaches) :
         summary.breaches[j].records # summary.breaches[k].records
   /\ GroupMeansScore(overall_score_of_group_means(selected, severity)) # summary.risk_score

\* C9: breaches holds exactly one entry per distinct source of the match
\* set, ordered by descending mean severity, ties by descending record count.
C9_BreachesOrdered ==
   HasSummary =>
      /\ Len(summary.breaches) = Cardinality({selected[i].source : i \in 1..Len(selected)})
      /\ {summary.breaches[k].source : k \in 1..Len(summary.breaches)}
            = {selected[i].source : i \in 1..Len(selected)}
      /\ \A k \in 1..(Len(summary.breaches) - 1) :
            \/ summary.breaches[k].avg_severity > summary.breaches[k + 1].avg_severity
            \/ /\ summary.breaches[k].avg_severity = summary.breaches[k + 1].avg_severity
               /\ summary.breaches[k].records >= summary.breaches[k + 1].records

\* C9 witness: two adjacent entries tie in mean severity and the one with
\* more records comes first although its source sorts later.
C9_Witness ==
   /\ HasSummary
   /\ \E k \in 1..(Len(summary.breaches) - 1) :
         /\ summary.breaches[k].avg_severity = summary.breaches[k + 1].avg_severity
         /\ summary.breaches[k].records > summary.breaches[k + 1].records
         /\ StrLess(summary.breaches[k + 1].source, summary.breaches[k].source)

\* C10: within one summarize run two records with identical breach_date and
\* compromised_data receive identical severity.
C10_SameInputsSameSeverity ==
   \A i \in 1..Len(severity), j \in 1..Len(severity) :
      (/\ selected[i].breach_date = selected[j].breach_date
       /\ selected[i].compromised_data = selected[j].compromised_data)
         => severity[i] = severity[j]

====
